---- MODULE Spec2Model ----
(***************************************************************************)
(* State trackers of the function agent: requestState and containerState,  *)
(* each a mutex-guarded (state, start) pair with one mutating operation,   *)
(* UpdateState.  Callers run UpdateState concurrently; every statement     *)
(* that touches shared state or an external collaborator (slot queue,      *)
(* stats recorder) is one step of the calling goroutine.                   *)
(***************************************************************************)
EXTENDS Integers, Sequences, FiniteSets

\* ---------------------------------------------------------------- bounds
NumCallers == 2
MaxCalls == 2
MaxDeepCalls == 3

Callers == 1..NumCallers

\* ------------------------------------------------------- enumerations
RequestStateNone == 0
RequestStateWait == 1
RequestStateExec == 2
RequestStateDone == 3
RequestStateMax == 4

ContainerStateNone == 0
ContainerStateWait == 1
ContainerStateStart == 2
ContainerStateIdle == 3
ContainerStatePaused == 4
ContainerStateBusy == 5
ContainerStateDone == 6
ContainerStateMax == 7

RequestStates == RequestStateNone..(RequestStateMax - 1)
ContainerStates == ContainerStateNone..(ContainerStateMax - 1)

\* [ContainerStateMax]string literals: entries past the last initialiser
\* are the empty string.  Go indexes from 0, TLA+ from 1.
containerGaugeKeysShifted ==
  << "container_wait_total", "container_start_total",
     "container_idle_total", "container_paused_total",
     "container_busy_total", "", "" >>

containerGaugeKeysDone ==
  << "", "container_wait_total", "container_start_total",
     "container_idle_total", "container_paused_total",
     "container_busy_total", "container_done_total" >>

containerGaugeKeys ==
  << "", "container_wait_total", "container_start_total",
     "container_idle_total", "container_paused_total",
     "container_busy_total", "" >>

containerTimeKeys ==
  << "", "container_wait_duration_seconds", "container_start_duration_seconds",
     "container_idle_duration_seconds", "container_paused_duration_seconds",
     "container_busy_duration_seconds", "" >>

\* ------------------------------------------------------------- time
\* time.Time is a count of nanoseconds; the zero Time is 0.
Millisecond == 1000000
ZeroTime == 0
IsZero(t) == t = ZeroTime

\* Amounts by which the clock may have moved between two time.Now() reads.
Advances == {0, Millisecond + Millisecond \div 2}

\* ------------------------------------------------------------- slots
nil == "nil"
SlotQueue == "slotQueue"
SlotRefs == {nil, SlotQueue}

\* ------------------------------------------------------- pure helpers
isIdleStateWide(state) ==
  state >= ContainerStateIdle /\ state <= ContainerStateBusy

isIdleState(state) ==
  state = ContainerStateIdle \/ state = ContainerStatePaused

ContainerAllowedNoResume(state, newState) ==
  \/ (state < newState
        /\ ~(state = ContainerStatePaused /\ newState = ContainerStateBusy))
  \/ (state = ContainerStatePaused /\ newState = ContainerStateIdle)
  \/ (state = ContainerStateBusy /\ isIdleState(newState))

ContainerAllowedAny(state, newState) == state # newState

ContainerAllowedForwardOnly(state, newState) == state < newState

ContainerAllowedLax(state, newState) ==
  \/ state <= newState
  \/ (state = ContainerStatePaused /\ newState = ContainerStateIdle)
  \/ (state = ContainerStateBusy /\ isIdleState(newState))

\* the guard of containerState.UpdateState
ContainerAllowed(state, newState) ==
  \/ state < newState
  \/ (state = ContainerStatePaused /\ newState = ContainerStateIdle)
  \/ (state = ContainerStateBusy /\ isIdleState(newState))

RequestAllowedLax(state, newState) == state <= newState

RequestAllowedAny(state, newState) == state # newState

\* the guard of requestState.UpdateState
RequestAllowed(state, newState) == state < newState

setHotAny(state) ==
  IF state = ContainerStateStart THEN {1} ELSE {-1}

\* the value setHot records, as a set: empty when it returns early
setHot(state) ==
  IF state # ContainerStateStart /\ state # ContainerStateDone
  THEN {}
  ELSE IF state = ContainerStateStart THEN {1} ELSE {-1}

HasSlotsAlways(slots) == TRUE

HasSlots(slots) == slots # nil

HasGauge(state) == containerGaugeKeys[state + 1] # ""
HasTime(state) == containerTimeKeys[state + 1] # ""

ElapsedNs(now, before) == now - before

\* int64(now.Sub(before) / time.Millisecond): Go division truncates to zero
ElapsedMs(now, before) ==
  IF now >= before THEN (now - before) \div Millisecond
  ELSE -((before - now) \div Millisecond)

CanLockAlways(holders) == TRUE

\* sync.Mutex.Lock returns only when nobody holds the mutex
CanLock(holders) == holders = {}

RejectedNever(now) == FALSE

\* the caller returns right after Unlock when nothing was stamped
Rejected(now) == IsZero(now)

\* ------------------------------------------------------------- state
VARIABLES
  container,  \* containerState: [lock, state, start]
  request,    \* requestState:   [lock, state, start]
  clk,        \* the last value time.Now() returned
  frame,      \* per caller: the activation record of its UpdateState call
  calls,      \* history, per caller: its calls so far, each with its
              \* arguments and the calls it made on the slot queue and on
              \* stats.Record, in order
  hist        \* history: accepted transitions, in the order of the writes

vars == << container, request, clk, frame, calls, hist >>

IdleFrame ==
  [pc |-> "idle", newState |-> 0, slots |-> nil,
   now |-> ZeroTime, oldState |-> 0, before |-> ZeroTime]

Init ==
  /\ container = [lock |-> {}, state |-> ContainerStateNone, start |-> ZeroTime]
  /\ request = [lock |-> {}, state |-> RequestStateNone, start |-> ZeroTime]
  /\ clk = Millisecond
  /\ frame = [p \in Callers |-> IdleFrame]
  /\ calls = [p \in Callers |-> << >>]
  /\ hist = << >>

\* the call a caller is in (or has last returned from)
Cur(p) == Len(calls[p])
CallId(p) == << p, Cur(p) >>

RECURSIVE SumLen(_, _)
SumLen(f, S) ==
  IF S = {} THEN 0
  ELSE LET x == CHOOSE y \in S : TRUE IN Len(f[x]) + SumLen(f, S \ {x})

NumCalls == SumLen(calls, Callers)

\* one behaviour exercises one tracker instance
Exercises(fn) == \A q \in Callers : \A i \in 1..Len(calls[q]) : calls[q][i].fn = fn

NewCall(p, fn, newState, slots) ==
  calls' = [calls EXCEPT ![p] = Append(@, [fn |-> fn, newState |-> newState,
              slots |-> slots, out |-> << >>, returned |-> FALSE])]

Emit(p, ev, st, val) ==
  calls' = [calls EXCEPT ![p][Cur(p)].out =
              Append(@, [ev |-> ev, st |-> st, val |-> val])]

EmitAndReturn(p, ev, st, val) ==
  calls' = [calls EXCEPT ![p][Cur(p)].out =
              Append(@, [ev |-> ev, st |-> st, val |-> val]),
            ![p][Cur(p)].returned = TRUE]

Goto(p, label) == frame' = [frame EXCEPT ![p].pc = label]

Return(p) ==
  /\ frame' = [frame EXCEPT ![p].pc = "idle"]
  /\ calls' = [calls EXCEPT ![p][Cur(p)].returned = TRUE]

\* ------------------------------------------- containerState.UpdateState
\* entry: var slots = call.slots; now, oldState, before are zero values
cCall(p, newState, slots) ==
  /\ frame[p].pc = "idle"
  /\ Exercises("container")
  /\ NewCall(p, "container", newState, slots)
  /\ frame' = [frame EXCEPT ![p] = [IdleFrame EXCEPT !.pc = "cLock",
                  !.newState = newState, !.slots = slots]]
  /\ UNCHANGED << container, request, clk, hist >>

\* c.lock.Lock()
cLock(p) ==
  /\ frame[p].pc = "cLock"
  /\ CanLock(container.lock)
  /\ container' = [container EXCEPT !.lock = @ \cup {p}]
  /\ Goto(p, "cTest")
  /\ UNCHANGED << request, clk, calls, hist >>

\* the condition, and when it holds: now = time.Now(); oldState = c.state;
\* before = c.start
cTest(p) ==
  /\ frame[p].pc = "cTest"
  /\ IF ContainerAllowed(container.state, frame[p].newState)
     THEN \E d \in Advances :
            /\ clk' = clk + d
            /\ frame' = [frame EXCEPT ![p].pc = "cSet", ![p].now = clk + d,
                           ![p].oldState = container.state,
                           ![p].before = container.start]
     ELSE /\ Goto(p, "cUnlock")
          /\ UNCHANGED clk
  /\ UNCHANGED << container, request, calls, hist >>

\* c.state = newState; c.start = now
cSet(p) ==
  /\ frame[p].pc = "cSet"
  /\ container' = [container EXCEPT !.state = frame[p].newState,
                                    !.start = frame[p].now]
  /\ hist' = Append(hist, [id |-> CallId(p), from |-> container.state,
                           old |-> frame[p].oldState,
                           to |-> frame[p].newState, at |-> frame[p].now])
  /\ Goto(p, "cUnlock")
  /\ UNCHANGED << request, clk, calls >>

cUnlockDeferred(p) ==
  /\ frame[p].pc = "cUnlock"
  /\ IF Rejected(frame[p].now)
     THEN Return(p)
     ELSE Goto(p, "cHot") /\ UNCHANGED calls
  /\ UNCHANGED << container, request, clk, hist >>

\* c.lock.Unlock(); if now.IsZero() { return }
cUnlock(p) ==
  /\ frame[p].pc = "cUnlock"
  /\ container' = [container EXCEPT !.lock = @ \ {p}]
  /\ IF Rejected(frame[p].now)
     THEN Return(p)
     ELSE Goto(p, "cHot") /\ UNCHANGED calls
  /\ UNCHANGED << request, clk, hist >>

\* if slots != nil { setHot(ctx, call.AppID, call.FnID, call.Image, newState)
cHot(p) ==
  /\ frame[p].pc = "cHot"
  /\ IF HasSlots(frame[p].slots)
     THEN /\ Goto(p, "cEnter")
          /\ IF setHot(frame[p].newState) = {}
             THEN UNCHANGED calls
             ELSE \E v \in setHot(frame[p].newState) :
                    Emit(p, "hot", frame[p].newState, v)
     ELSE /\ Goto(p, "cGaugeOld")
          /\ UNCHANGED calls
  /\ UNCHANGED << container, request, clk, hist >>

\* slots.enterContainerState(newState)
cEnter(p) ==
  /\ frame[p].pc = "cEnter"
  /\ Emit(p, "enter", frame[p].newState, 0)
  /\ Goto(p, "cExit")
  /\ UNCHANGED << container, request, clk, hist >>

\* slots.exitContainerState(oldState) }
cExit(p) ==
  /\ frame[p].pc = "cExit"
  /\ Emit(p, "exit", frame[p].oldState, 0)
  /\ Goto(p, "cGaugeOld")
  /\ UNCHANGED << container, request, clk, hist >>

\* update old state stats: gauge -1
cGaugeOld(p) ==
  /\ frame[p].pc = "cGaugeOld"
  /\ IF HasGauge(frame[p].oldState)
     THEN Emit(p, "gauge", frame[p].oldState, -1)
     ELSE UNCHANGED calls
  /\ Goto(p, "cTimeOld")
  /\ UNCHANGED << container, request, clk, hist >>

\* the time spent in the old state
cTimeOld(p) ==
  /\ frame[p].pc = "cTimeOld"
  /\ IF HasTime(frame[p].oldState)
     THEN Emit(p, "time", frame[p].oldState,
               ElapsedMs(frame[p].now, frame[p].before))
     ELSE UNCHANGED calls
  /\ Goto(p, "cGaugeNew")
  /\ UNCHANGED << container, request, clk, hist >>

\* update new state stats: gauge +1; then the call returns
cGaugeNew(p) ==
  /\ frame[p].pc = "cGaugeNew"
  /\ frame' = [frame EXCEPT ![p].pc = "idle"]
  /\ IF HasGauge(frame[p].newState)
     THEN EmitAndReturn(p, "gauge", frame[p].newState, 1)
     ELSE calls' = [calls EXCEPT ![p][Cur(p)].returned = TRUE]
  /\ UNCHANGED << container, request, clk, hist >>

\* --------------------------------------------- requestState.UpdateState
rCall(p, newState, slots) ==
  /\ frame[p].pc = "idle"
  /\ Exercises("request")
  /\ NewCall(p, "request", newState, slots)
  /\ frame' = [frame EXCEPT ![p] = [IdleFrame EXCEPT !.pc = "rLock",
                  !.newState = newState, !.slots = slots]]
  /\ UNCHANGED << container, request, clk, hist >>

\* c.lock.Lock()
rLock(p) ==
  /\ frame[p].pc = "rLock"
  /\ CanLock(request.lock)
  /\ request' = [request EXCEPT !.lock = @ \cup {p}]
  /\ Goto(p, "rTest")
  /\ UNCHANGED << container, clk, calls, hist >>

\* if c.state < newState { now = time.Now(); oldState = c.state
rTest(p) ==
  /\ frame[p].pc = "rTest"
  /\ IF RequestAllowed(request.state, frame[p].newState)
     THEN \E d \in Advances :
            /\ clk' = clk + d
            /\ frame' = [frame EXCEPT ![p].pc = "rSet", ![p].now = clk + d,
                           ![p].oldState = request.state]
     ELSE /\ Goto(p, "rUnlock")
          /\ UNCHANGED clk
  /\ UNCHANGED << container, request, calls, hist >>

\* c.state = newState; c.start = now }
rSet(p) ==
  /\ frame[p].pc = "rSet"
  /\ request' = [request EXCEPT !.state = frame[p].newState,
                                !.start = frame[p].now]
  /\ hist' = Append(hist, [id |-> CallId(p), from |-> request.state,
                           old |-> frame[p].oldState,
                           to |-> frame[p].newState, at |-> frame[p].now])
  /\ Goto(p, "rUnlock")
  /\ UNCHANGED << container, clk, calls >>

rUnlockLeak(p) ==
  /\ frame[p].pc = "rUnlock"
  /\ IF Rejected(frame[p].now)
     THEN /\ request' = [request EXCEPT !.lock = @ \ {p}]
          /\ Return(p)
     ELSE /\ UNCHANGED request
          /\ IF HasSlots(frame[p].slots)
             THEN Goto(p, "rEnter") /\ UNCHANGED calls
             ELSE Return(p)
  /\ UNCHANGED << container, clk, hist >>

\* c.lock.Unlock(); if now.IsZero() { return }; if slots != nil {
rUnlock(p) ==
  /\ frame[p].pc = "rUnlock"
  /\ request' = [request EXCEPT !.lock = @ \ {p}]
  /\ IF Rejected(frame[p].now)
     THEN Return(p)
     ELSE IF HasSlots(frame[p].slots)
          THEN Goto(p, "rEnter") /\ UNCHANGED calls
          ELSE Return(p)
  /\ UNCHANGED << container, clk, hist >>

\* slots.enterRequestState(newState)
rEnter(p) ==
  /\ frame[p].pc = "rEnter"
  /\ Emit(p, "enter", frame[p].newState, 0)
  /\ Goto(p, "rExit")
  /\ UNCHANGED << container, request, clk, hist >>

\* slots.exitRequestState(oldState) }; then the call returns
rExit(p) ==
  /\ frame[p].pc = "rExit"
  /\ frame' = [frame EXCEPT ![p].pc = "idle"]
  /\ EmitAndReturn(p, "exit", frame[p].oldState, 0)
  /\ UNCHANGED << container, request, clk, hist >>

\* ------------------------------------------------------ specification
cStep(p) ==
  \/ cLock(p)
  \/ cTest(p)
  \/ cSet(p)
  \/ cUnlock(p)
  \/ cHot(p)
  \/ cEnter(p)
  \/ cExit(p)
  \/ cGaugeOld(p)
  \/ cTimeOld(p)
  \/ cGaugeNew(p)

rStep(p) ==
  \/ rLock(p)
  \/ rTest(p)
  \/ rSet(p)
  \/ rUnlock(p)
  \/ rEnter(p)
  \/ rExit(p)

Step(p) == cStep(p) \/ rStep(p)

\* Any callers, any arguments, at most MaxCalls calls in all.
Next ==
  \E p \in Callers :
    \/ /\ NumCalls < MaxCalls
       /\ \E n \in ContainerStates, s \in SlotRefs : cCall(p, n, s)
    \/ /\ NumCalls < MaxCalls
       /\ \E n \in RequestStates, s \in SlotRefs : rCall(p, n, s)
    \/ Step(p)

Spec == Init /\ [][Next]_vars

\* The race: one UpdateState(Wait) brings the tracker to Wait, then every
\* caller invokes UpdateState(Done) once, with the slot queue attached.
MadeCall(p, newState) ==
  \E i \in 1..Len(calls[p]) : calls[p][i].newState = newState

cRaceCall(p) ==
  \/ /\ NumCalls = 0
     /\ \E s \in SlotRefs : cCall(p, ContainerStateWait, s)
  \/ /\ container.state # ContainerStateNone
     /\ ~MadeCall(p, ContainerStateDone)
     /\ cCall(p, ContainerStateDone, SlotQueue)

rRaceCall(p) ==
  \/ /\ NumCalls = 0
     /\ \E s \in SlotRefs : rCall(p, RequestStateWait, s)
  \/ /\ request.state # RequestStateNone
     /\ ~MadeCall(p, RequestStateDone)
     /\ rCall(p, RequestStateDone, SlotQueue)

NextRace ==
  \E p \in Callers :
    \/ cRaceCall(p)
    \/ rRaceCall(p)
    \/ Step(p)

SpecRace == Init /\ [][NextRace]_vars

\* The scenario of the specification: four calls on one container, one after
\* the other, each by any caller and with or without a slot queue.
Scenario ==
  << ContainerStateWait, ContainerStateBusy, ContainerStateIdle,
     ContainerStateWait >>

cScenarioCall(p) ==
  /\ \A q \in Callers : frame[q].pc = "idle"
  /\ NumCalls < Len(Scenario)
  /\ \E s \in SlotRefs : cCall(p, Scenario[NumCalls + 1], s)

NextScenario ==
  \E p \in Callers :
    \/ cScenarioCall(p)
    \/ cStep(p)

SpecScenario == Init /\ [][NextScenario]_vars

\* Longer lifetimes: up to MaxDeepCalls calls, any target states, every call
\* with the slot queue attached.
NextDeep ==
  \E p \in Callers :
    \/ /\ NumCalls < MaxDeepCalls
       /\ \E n \in ContainerStates : cCall(p, n, SlotQueue)
    \/ /\ NumCalls < MaxDeepCalls
       /\ \E n \in RequestStates : rCall(p, n, SlotQueue)
    \/ Step(p)

SpecDeep == Init /\ [][NextDeep]_vars

\* The goroutine scheduler runs every runnable caller sooner or later, and a
\* caller blocked in Lock is runnable whenever the mutex is free.
FairSpec == SpecRace /\ \A p \in Callers : WF_vars(Step(p))

\* ------------------------------------------------- history accessors
Ids == UNION {{<< p, i >> : i \in 1..Len(calls[p])} : p \in Callers}
Call(id) == calls[id[1]][id[2]]
Accepted(id) == \E k \in 1..Len(hist) : hist[k].id = id
HistIndex(id) == CHOOSE k \in 1..Len(hist) : hist[k].id = id
HistOf(id) == hist[HistIndex(id)]
Events(id, kinds) == SelectSeq(Call(id).out, LAMBDA e : e.ev \in kinds)
Occurrences(ev, st) ==
  Cardinality({t \in UNION {{<< id, j >> : j \in 1..Len(Call(id).out)} : id \in Ids} :
                 Call(t[1]).out[t[2]].ev = ev /\ Call(t[1]).out[t[2]].st = st})
Quiescent == \A p \in Callers : frame[p].pc = "idle"

\* the legality rule as the specification words it
BackwardExceptions ==
  { << ContainerStatePaused, ContainerStateIdle >>,
    << ContainerStateBusy, ContainerStateIdle >>,
    << ContainerStateBusy, ContainerStatePaused >> }
RuleAccepts(s, newState) == s < newState \/ << s, newState >> \in BackwardExceptions

\* ---------------------------------------------------------------- C1
\* C1: a container call that finds state s and asks for newState stores
\* newState iff s < newState or (s, newState) is one of (Paused, Idle),
\* (Busy, Idle), (Busy, Paused); for every other pair, s == newState
\* included, the state stays s.  The state changes in no other way.
C1_ContainerLegality ==
  [][ /\ \A p \in Callers :
           (frame[p].pc = "cTest" /\ frame'[p].pc # "cTest") =>
             IF RuleAccepts(container.state, frame[p].newState)
             THEN frame'[p].pc = "cSet" /\ frame'[p].oldState = container.state
             ELSE frame'[p].pc = "cUnlock" /\ container'.state = container.state
      /\ \A p \in Callers :
           (frame[p].pc = "cSet" /\ frame'[p].pc # "cSet") =>
             /\ container.state = frame[p].oldState
             /\ container'.state = frame[p].newState
      /\ (container'.state # container.state =>
            \E p \in Callers : frame[p].pc = "cSet" /\ frame'[p].pc # "cSet")
    ]_vars

C1_Witness ==
  /\ \E k \in 1..Len(hist) : /\ hist[k].from = ContainerStateBusy
                             /\ hist[k].to = ContainerStatePaused
  /\ container.state = ContainerStatePaused
  /\ Quiescent

\* ---------------------------------------------------------------- C2
\* C2: under any interleaving of requestState.UpdateState calls the state
\* of the request tracker never decreases.
C2_RequestMonotonic == [][request'.state >= request.state]_vars

C2_Witness ==
  /\ Len(hist) = 2
  /\ hist[1].id[1] # hist[2].id[1]
  /\ request.state = RequestStateDone

\* ---------------------------------------------------------------- C3
\* C3: a call that the rule rejects (container: pair not allowed; request:
\* newState <= state) changes neither state nor start of its tracker.
InRejectedContainerCall(p) ==
  /\ frame[p].pc \in {"cTest", "cSet", "cUnlock"}
  /\ IF frame[p].pc = "cUnlock"
     THEN ~Accepted(CallId(p))
     ELSE ~RuleAccepts(container.state, frame[p].newState)

InRejectedRequestCall(p) ==
  /\ frame[p].pc \in {"rTest", "rSet", "rUnlock"}
  /\ IF frame[p].pc = "rUnlock"
     THEN ~Accepted(CallId(p))
     ELSE frame[p].newState <= request.state

C3_RejectedKeepsFields ==
  [][ \A p \in Callers :
        /\ (InRejectedContainerCall(p) /\ frame'[p] # frame[p]) =>
             /\ container'.state = container.state
             /\ container'.start = container.start
        /\ (InRejectedRequestCall(p) /\ frame'[p] # frame[p]) =>
             /\ request'.state = request.state
             /\ request'.start = request.start
    ]_vars

C3_Witness ==
  \E id \in Ids :
    /\ Call(id).fn = "container"
    /\ Call(id).returned
    /\ ~Accepted(id)
    /\ Call(id).newState = container.state
    /\ Len(hist) = 1
    /\ container.start = hist[1].at

\* ---------------------------------------------------------------- C4
\* C4: a rejected call makes no call on the slot queue and records no
\* measurement: everything emitted belongs to an accepted call.
C4_RejectedEmitsNothing ==
  \A id \in Ids : ~Accepted(id) => Call(id).out = << >>

C4_Witness ==
  \E a, b \in Ids :
    /\ Call(a).fn = "container" /\ Accepted(a) /\ Call(a).out # << >>
    /\ Call(b).returned /\ ~Accepted(b) /\ Call(b).slots = SlotQueue
    /\ Call(b).out = << >>

\* ---------------------------------------------------------------- C5
\* C5: when the callers race UpdateState(Done), slot queue attached, on a
\* tracker at Wait, exactly one of the calls is accepted, and once all have
\* returned the slot queue has seen exactly one enter(Done) and exactly one
\* exit(Wait).
DoneState(fn) == IF fn = "container" THEN ContainerStateDone ELSE RequestStateDone
WaitState(fn) == IF fn = "container" THEN ContainerStateWait ELSE RequestStateWait
DoneCalls == {id \in Ids : Call(id).newState = DoneState(Call(id).fn)}

C5_SingleWinner ==
  (Quiescent /\ DoneCalls # {}) =>
     \A fn \in {"container", "request"} :
       Exercises(fn) =>
         /\ Cardinality({id \in DoneCalls : Accepted(id)}) = 1
         /\ \A id \in DoneCalls : Accepted(id) => HistOf(id).from = WaitState(fn)
         /\ Occurrences("enter", DoneState(fn)) = 1
         /\ Occurrences("exit", WaitState(fn)) = 1

C5_Witness ==
  /\ Quiescent
  /\ Cardinality(DoneCalls) = NumCallers
  /\ \A p \in Callers : MadeCall(p, RequestStateDone)
  /\ Exercises("request")
  /\ Occurrences("enter", RequestStateDone) = 1

\* ---------------------------------------------------------------- C6
\* C6 as claimed: every accepted container transition to Start emits exactly
\* one +1 hot delta, to Done exactly one -1, to any other target none,
\* with a slot queue and with none.
HotExpected(newState) ==
  IF newState = ContainerStateStart
  THEN << [ev |-> "hot", st |-> newState, val |-> 1] >>
  ELSE IF newState = ContainerStateDone
       THEN << [ev |-> "hot", st |-> newState, val |-> -1] >>
       ELSE << >>

ReturnedContainerCalls ==
  {id \in Ids : Call(id).fn = "container" /\ Call(id).returned /\ Accepted(id)}

C6_HotEveryContext ==
  \A id \in ReturnedContainerCalls :
    Events(id, {"hot"}) = HotExpected(HistOf(id).to)

\* C6 amended: the polarity holds for calls whose call.slots is set; an
\* accepted transition made with call.slots == nil emits no hot delta.
C6_HotPolarity ==
  \A id \in ReturnedContainerCalls :
    Events(id, {"hot"}) =
      IF Call(id).slots # nil THEN HotExpected(HistOf(id).to) ELSE << >>

C6_Witness ==
  \E a, b \in ReturnedContainerCalls :
    /\ Call(a).slots = SlotQueue /\ HistOf(a).to = ContainerStateStart
    /\ Events(a, {"hot"}) = << [ev |-> "hot", st |-> ContainerStateStart, val |-> 1] >>
    /\ Call(b).slots = nil /\ HistOf(b).to = ContainerStateDone
    /\ Events(b, {"hot"}) = << >>

\* ---------------------------------------------------------------- C7
\* C7: an accepted container transition from p to n emits exactly one -1 on
\* p's gauge iff p is one of Wait, Start, Idle, Paused, Busy, exactly one +1
\* on n's gauge iff n is one of those, and no other gauge delta, with or
\* without a slot queue.
OccupancyStates == ContainerStateWait..ContainerStateBusy

GaugeExpected(p, n) ==
  (IF p \in OccupancyStates THEN << [ev |-> "gauge", st |-> p, val |-> -1] >>
                            ELSE << >>)
  \o (IF n \in OccupancyStates THEN << [ev |-> "gauge", st |-> n, val |-> 1] >>
                               ELSE << >>)

C7_GaugeDeltas ==
  \A id \in ReturnedContainerCalls :
    Events(id, {"gauge"}) = GaugeExpected(HistOf(id).from, HistOf(id).to)

C7_Witness ==
  \E a, b \in ReturnedContainerCalls :
    /\ Call(a).slots = nil /\ HistOf(a).from = ContainerStateNone
    /\ Len(Events(a, {"gauge"})) = 1
    /\ Call(b).slots = SlotQueue /\ HistOf(b).to = ContainerStateDone
    /\ HistOf(b).from = HistOf(a).to
    /\ Events(b, {"gauge"}) = << [ev |-> "gauge", st |-> HistOf(a).to, val |-> -1] >>

\* ---------------------------------------------------------------- C8
\* C8: an accepted container transition out of p in {Wait, Start, Idle,
\* Paused, Busy} emits exactly one duration for p, and its value is the time
\* stamped by this transition minus the time stamped by the accepted
\* transition that entered p, in whole milliseconds; a transition out of
\* None emits no duration.
EnteredBy(k) ==
  CHOOSE j \in 1..(k - 1) :
    /\ hist[j].to = hist[k].from
    /\ \A i \in (j + 1)..(k - 1) : hist[i].to # hist[k].from

C8_Durations ==
  \A id \in ReturnedContainerCalls :
    LET k == HistIndex(id) IN
      IF hist[k].from \in OccupancyStates
      THEN /\ \E j \in 1..(k - 1) : hist[j].to = hist[k].from
           /\ Events(id, {"time"}) =
                << [ev |-> "time", st |-> hist[k].from,
                    val |-> (hist[k].at - hist[EnteredBy(k)].at) \div Millisecond] >>
      ELSE /\ hist[k].from = ContainerStateNone
           /\ Events(id, {"time"}) = << >>

C8_Witness ==
  \E a, b \in ReturnedContainerCalls :
    /\ a[1] # b[1]
    /\ HistOf(a).from = ContainerStateNone /\ Events(a, {"time"}) = << >>
    /\ HistOf(b).from = HistOf(a).to
    /\ HistOf(b).at - HistOf(a).at > Millisecond
    /\ (HistOf(b).at - HistOf(a).at) % Millisecond # 0
    /\ Events(b, {"time"}) = << [ev |-> "time", st |-> HistOf(b).from, val |-> 1] >>

\* ---------------------------------------------------------------- C9
\* C9: a caller that is at a slot-queue hook or at a stats emission does not
\* hold the tracker's lock; the lock is held only between Lock and Unlock,
\* around the comparison and the update, by at most one caller at a time.
SideEffectLabels ==
  {"cHot", "cEnter", "cExit", "cGaugeOld", "cTimeOld", "cGaugeNew",
   "rEnter", "rExit"}

C9_LockScope ==
  /\ Cardinality(container.lock) <= 1
  /\ Cardinality(request.lock) <= 1
  /\ \A p \in Callers :
       /\ frame[p].pc \in SideEffectLabels =>
            p \notin container.lock /\ p \notin request.lock
       /\ p \in container.lock => frame[p].pc \in {"cTest", "cSet", "cUnlock"}
       /\ p \in request.lock => frame[p].pc \in {"rTest", "rSet", "rUnlock"}

C9_Witness ==
  \E p, q \in Callers :
    /\ frame[p].pc = "cEnter"
    /\ frame[q].pc = "cSet"
    /\ container.lock = {q}

\* --------------------------------------------------------------- C10
\* C10: an accepted transition made with a slot queue calls enter(newState)
\* once and then exit(previousState) once, previousState being the state the
\* call replaced; made with no slot queue it still changes the state and
\* calls no hook.
NotifierExpected(id) ==
  << [ev |-> "enter", st |-> HistOf(id).to, val |-> 0],
     [ev |-> "exit", st |-> HistOf(id).from, val |-> 0] >>

C10_NotifierProtocol ==
  \A id \in Ids :
    Accepted(id) =>
      LET seen == Events(id, {"enter", "exit"}) IN
        /\ HistOf(id).to = Call(id).newState
        /\ HistOf(id).to # HistOf(id).from
        /\ IF Call(id).slots # nil
           THEN /\ Len(seen) <= 2
                /\ seen = SubSeq(NotifierExpected(id), 1, Len(seen))
                /\ Call(id).returned => Len(seen) = 2
           ELSE seen = << >>

C10_Witness ==
  \E a, b \in Ids :
    /\ Accepted(a) /\ Call(a).returned /\ Call(a).slots = nil
    /\ Call(a).out = << >> /\ Call(a).fn = "request"
    /\ Accepted(b) /\ Call(b).returned /\ Call(b).slots = SlotQueue
    /\ HistOf(b).from = HistOf(a).to
    /\ Call(b).out = << [ev |-> "enter", st |-> HistOf(b).to, val |-> 0],
                        [ev |-> "exit", st |-> HistOf(a).to, val |-> 0] >>

\* --------------------------------------------------------------- C11
\* C11: under fair scheduling every UpdateState call, on either tracker and
\* with any number of concurrent callers, eventually returns: no caller
\* waits for the lock forever.
C11_CallsReturn ==
  \A p \in Callers : (frame[p].pc # "idle") ~> (frame[p].pc = "idle")

C11_Witness ==
  \E p, q \in Callers :
    /\ frame[p].pc = "rLock"
    /\ request.lock = {q}
    /\ frame[q].pc = "rUnlock"

\* --------------------------------------------------------------- C12
\* C12: on a container at None, in sequence: UpdateState(Wait) is accepted
\* and emits wait gauge +1; UpdateState(Busy) is accepted and emits wait
\* gauge -1, busy gauge +1 and a duration for Wait; UpdateState(Idle) is
\* accepted and emits busy gauge -1 and idle gauge +1; a last
\* UpdateState(Wait) is rejected, leaves the state Idle and emits nothing.
ScenarioStates ==
  << ContainerStateNone, ContainerStateWait, ContainerStateBusy,
     ContainerStateIdle, ContainerStateIdle >>

ScenarioGauges ==
  << << [ev |-> "gauge", st |-> ContainerStateWait, val |-> 1] >>,
     << [ev |-> "gauge", st |-> ContainerStateWait, val |-> -1],
        [ev |-> "gauge", st |-> ContainerStateBusy, val |-> 1] >>,
     << [ev |-> "gauge", st |-> ContainerStateBusy, val |-> -1],
        [ev |-> "gauge", st |-> ContainerStateIdle, val |-> 1] >> >>

C12_Scenario ==
  Quiescent =>
    /\ container.state = ScenarioStates[NumCalls + 1]
    /\ Len(hist) = IF NumCalls < Len(Scenario) THEN NumCalls ELSE NumCalls - 1
    /\ \A k \in 1..Len(hist) :
         /\ hist[k].from = ScenarioStates[k]
         /\ hist[k].to = Scenario[k]
         /\ Events(hist[k].id, {"gauge"}) = ScenarioGauges[k]
    /\ Len(hist) >= 2 =>
         /\ Len(Events(hist[2].id, {"time"})) = 1
         /\ Events(hist[2].id, {"time"})[1].st = ContainerStateWait
    /\ \A id \in Ids :
         ~Accepted(id) =>
           /\ NumCalls = Len(Scenario)
           /\ Call(id).newState = ContainerStateWait
           /\ Call(id).out = << >>

C12_Witness ==
  /\ Quiescent
  /\ NumCalls = Len(Scenario)
  /\ container.state = ContainerStateIdle
  /\ \E id \in Ids : ~Accepted(id) /\ Call(id).returned /\ Call(id).slots = SlotQueue

\* --------------------------------------------------------------- C13
\* C13: once a tracker is Done no call changes its state or start, is
\* accepted, or emits anything; and a container never moves from Idle,
\* Paused or Busy back to None, Wait or Start.
RunningStates == {ContainerStateIdle, ContainerStatePaused, ContainerStateBusy}
EarlyStates == {ContainerStateNone, ContainerStateWait, ContainerStateStart}
TrackerDone ==
  \/ Exercises("container") /\ container.state = ContainerStateDone
  \/ Exercises("request") /\ request.state = RequestStateDone

C13_DoneTerminal ==
  [][ /\ container.state = ContainerStateDone =>
           /\ container'.state = container.state
           /\ container'.start = container.start
      /\ request.state = RequestStateDone =>
           /\ request'.state = request.state
           /\ request'.start = request.start
      /\ TrackerDone =>
           /\ hist' = hist
           /\ \A p \in Callers :
                (frame[p].pc \in {"cTest", "rTest"} /\ frame'[p] # frame[p]) =>
                  /\ frame'[p].pc \in {"cUnlock", "rUnlock"}
                  /\ IsZero(frame'[p].now)
           /\ \A p \in Callers :
                (calls[p] # << >> /\ Len(calls'[p]) = Len(calls[p])
                   /\ Call(CallId(p)).out # calls'[p][Cur(p)].out) =>
                  Accepted(CallId(p))
      /\ container.state \in RunningStates => container'.state \notin EarlyStates
    ]_vars

C13_Witness ==
  \E a, b \in Ids :
    /\ Len(hist) = 1
    /\ hist[1].id = a
    /\ hist[1].to = ContainerStateDone
    /\ Call(a).fn = "container"
    /\ Call(b).newState = ContainerStateBusy
    /\ Call(b).slots = SlotQueue
    /\ Call(b).returned
    /\ Call(b).out = << >>
    /\ container.start = hist[1].at

\* --------------------------------------------------------------- C14
\* C14: under any interleaving the previous state noted by each accepted
\* transition is the new state of the accepted transition just before it
\* (None for the first), the stamps of successive accepted transitions do
\* not decrease, and no emitted duration is negative.
C14_SingleChain ==
  /\ \A k \in 1..Len(hist) :
       /\ hist[k].old = IF k = 1 THEN ContainerStateNone ELSE hist[k - 1].to
       /\ k > 1 => hist[k].at >= hist[k - 1].at
  /\ \A id \in Ids :
       \A j \in 1..Len(Call(id).out) :
         Call(id).out[j].ev = "time" => Call(id).out[j].val >= 0

C14_Witness ==
  /\ Len(hist) = 3
  /\ hist[1].id[1] # hist[2].id[1]
  /\ hist[2].at = hist[1].at
  /\ hist[3].at > hist[2].at
  /\ \E j \in 1..Len(Call(hist[3].id).out) :
       /\ Call(hist[3].id).out[j].ev = "time"
       /\ Call(hist[3].id).out[j].val = 1
  /\ frame[hist[1].id[1]].pc = "cHot"

\* --------------------------------------------------------------- C15
\* C15 as claimed: UpdateState(Busy) on a container at Paused is rejected, so
\* no accepted transition leads from Paused to Busy.
C15_PausedBusyRejected ==
  \A k \in 1..Len(hist) :
    ~(hist[k].from = ContainerStatePaused /\ hist[k].to = ContainerStateBusy)

\* C15 amended: Paused -> Busy is a forward move and is accepted; the moves
\* accepted out of Paused are exactly those to Idle, Busy and Done, and the
\* state then becomes the target.
C15_MovesOutOfPaused ==
  [][ \A p \in Callers :
        /\ (frame[p].pc = "cTest" /\ frame'[p] # frame[p]
              /\ container.state = ContainerStatePaused) =>
             (frame'[p].pc = "cSet" <=>
                frame[p].newState \in {ContainerStateIdle, ContainerStateBusy,
                                       ContainerStateDone})
        /\ (frame[p].pc = "cSet" /\ frame'[p] # frame[p]
              /\ container.state = ContainerStatePaused) =>
             container'.state = frame[p].newState
    ]_vars

C15_Witness ==
  /\ Len(hist) = 2
  /\ hist[2].from = ContainerStatePaused
  /\ hist[2].to = ContainerStateBusy
  /\ container.state = ContainerStateBusy
  /\ Quiescent

\* --------------------------------------------------------------- C16
\* C16: side effects of different accepted transitions are not ordered.  A
\* caller with side effects still to deliver holds nothing another caller
\* needs: its own next step can always be taken, and a caller waiting in
\* Lock can enter as soon as nobody is between Lock and Unlock.  So a later
\* transition can be accepted, and deliver all its side effects, before the
\* earlier one has delivered any (the state C16_Witness describes).
ContainerSideEffects ==
  {"cHot", "cEnter", "cExit", "cGaugeOld", "cTimeOld", "cGaugeNew"}
InCriticalSection(r) == frame[r].pc \in {"cTest", "cSet", "cUnlock"}

C16_SideEffectsUnordered ==
  \A p \in Callers :
    frame[p].pc \in ContainerSideEffects =>
      /\ ENABLED cStep(p)
      /\ \A q \in Callers :
           (frame[q].pc = "cLock" /\ \A r \in Callers : ~InCriticalSection(r)) =>
             ENABLED cLock(q)

\* the later transition has returned, the earlier one has delivered nothing:
\* the slot queue saw exit(s) and the gauge of s its -1, enter(s) and +1 are
\* still to come
C16_Witness ==
  /\ Len(hist) = 2
  /\ hist[1].id[1] # hist[2].id[1]
  /\ hist[1].to \in OccupancyStates
  /\ hist[2].from = hist[1].to
  /\ Call(hist[1].id).slots = SlotQueue
  /\ Call(hist[2].id).slots = SlotQueue
  /\ frame[hist[1].id[1]].pc = "cHot"
  /\ Call(hist[1].id).out = << >>
  /\ Call(hist[2].id).returned
  /\ \E i, j \in 1..Len(Call(hist[2].id).out) :
       /\ Call(hist[2].id).out[i] = [ev |-> "exit", st |-> hist[1].to, val |-> 0]
       /\ Call(hist[2].id).out[j] = [ev |-> "gauge", st |-> hist[1].to, val |-> -1]

\* --------------------------------------------------------------- C17
\* C17: whenever no call on a container is in progress, the gauge deltas
\* emitted so far for each of Wait, Start, Idle, Paused, Busy add up to 1 if
\* that is the container's current state and to 0 otherwise.
EventPositions ==
  UNION {{<< id, j >> : j \in 1..Len(Call(id).out)} : id \in Ids}

GaugeCount(s, delta) ==
  Cardinality({t \in EventPositions :
                 Call(t[1]).out[t[2]] = [ev |-> "gauge", st |-> s, val |-> delta]})

GaugeNet(s) == GaugeCount(s, 1) - GaugeCount(s, -1)

C17_QuiescentGaugeBalance ==
  (Quiescent /\ Exercises("container")) =>
     \A s \in OccupancyStates :
       GaugeNet(s) = IF container.state = s THEN 1 ELSE 0

C17_Witness ==
  /\ Quiescent
  /\ Len(hist) = 3
  /\ container.state = ContainerStateIdle
  /\ hist[1].to = ContainerStateIdle
  /\ GaugeCount(ContainerStateIdle, 1) = 2
  /\ GaugeCount(ContainerStateIdle, -1) = 1
  /\ GaugeNet(ContainerStateBusy) = 0

\* --------------------------------------------------------------- C18
\* C18: the running sum of the hot deltas emitted for one container is
\* always 0 or 1: a -1 only follows a +1 and the sum is never negative.
HotCount(delta) ==
  Cardinality({t \in EventPositions :
                 /\ Call(t[1]).out[t[2]].ev = "hot"
                 /\ Call(t[1]).out[t[2]].val = delta})

C18_HotBalance == HotCount(1) - HotCount(-1) \in {0, 1}

\* --------------------------------------------------------------- C19
\* C19: over the lifetime of a container each of Wait, Start and Done is the
\* target of at most one accepted transition (Idle, Paused and Busy may be
\* entered again and again); for a request each of Wait, Exec and Done is,
\* so a request accepts at most three transitions.
Entries(s) == Cardinality({k \in 1..Len(hist) : hist[k].to = s})

C19_SingleEntry ==
  /\ Exercises("container") =>
       \A s \in {ContainerStateWait, ContainerStateStart, ContainerStateDone} :
         Entries(s) <= 1
  /\ Exercises("request") =>
       /\ \A s \in {RequestStateWait, RequestStateExec, RequestStateDone} :
            Entries(s) <= 1
       /\ Len(hist) <= 3

C19_Witness ==
  /\ calls[1] # << >>
  /\ calls[1][1].fn = "container"
  /\ Len(hist) = 3
  /\ Entries(ContainerStateIdle) = 2
  /\ Entries(ContainerStateBusy) = 1
  /\ container.state = ContainerStateIdle

====
